---- MODULE Spec2Model ----
(***************************************************************************)
(* MediMind: a Streamlit script (src/app/main.py) that extracts the text   *)
(* of an uploaded report, summarises it with an LLM, optionally translates *)
(* the summary, answers questions and searches PubMed.                     *)
(*                                                                         *)
(* Streamlit re-executes the whole script on every interaction, so every   *)
(* action below is one complete script run: the upload block of lines      *)
(* 184-205 first (the uploader widget keeps its file across runs), then    *)
(* the block of the button that was pressed.                               *)
(*                                                                         *)
(* Strings are sequences of Unicode code points, byte strings sequences of *)
(* numbers 0..255.  The libraries the script calls (st.cache_data, fitz,   *)
(* pandas, the LLM chain, the translator, requests) are modelled by what   *)
(* they are documented to do; their outcomes that depend on the outside    *)
(* world are inputs of the actions.                                        *)
(***************************************************************************)
EXTENDS Integers, Sequences, FiniteSets, TLC

VARIABLES
    inputs,          \* what the session's user has at hand: files, topics, ...
    now,             \* the cache timer (time.monotonic), in seconds
    uploaded_file,   \* the st.file_uploader widget: <<>> or <<[name, bytes]>>
    session_state,   \* st.session_state: a function on the keys that are set
    extract_cache,   \* st.cache_data store of extract_text_optimized
    inner_cache,     \* st.cache_data store of CacheOptimizer.optimized_text_extraction
    search_cache,    \* st.cache_data store of search_pubmed_optimized
    fetch_cache,     \* st.cache_data store of fetch_articles_optimized
    llm_resource,    \* st.cache_resource store of get_llm: "unloaded" or "loaded"
    event,           \* the interaction that triggered the last script run, with its inputs
    display,         \* the elements the last script run showed, in order
    requests,        \* the remote requests the last script run issued, in order
    executed,        \* the function bodies the last script run executed, in order
    computed         \* history: the cached calls whose body ran at the time `now`

vars == <<inputs, now, uploaded_file, session_state, extract_cache, inner_cache,
          search_cache, fetch_cache, llm_resource, event, display, requests,
          executed, computed>>

(***************************************************************************)
(* Strings                                                                 *)
(***************************************************************************)
RECURSIVE Concat(_)
\* "".join(parts)
Concat(parts) ==
    IF parts = <<>> THEN <<>> ELSE Head(parts) \o Concat(Tail(parts))

RECURSIVE Join(_, _)
\* sep.join(parts)
Join(sep, parts) ==
    IF parts = <<>> THEN <<>>
    ELSE IF Len(parts) = 1 THEN Head(parts)
    ELSE Head(parts) \o sep \o Join(sep, Tail(parts))

\* s.startswith(prefix)
StartsWith(s, prefix) ==
    /\ Len(s) >= Len(prefix)
    /\ SubSeq(s, 1, Len(prefix)) = prefix

\* s[:n]
Prefix(s, n) == SubSeq(s, 1, IF Len(s) < n THEN Len(s) ELSE n)

\* str.lower(), on the ASCII letters
LowerChar(c) == IF c >= 65 /\ c <= 90 THEN c + 32 ELSE c
Lower(s) == [i \in 1..Len(s) |-> LowerChar(s[i])]

\* s.split('.')[-1]: what follows the last '.', the whole string when there is none
LastDot(s) ==
    LET dots == {i \in 1..Len(s) : s[i] = 46}
    IN  IF dots = {} THEN 0 ELSE CHOOSE i \in dots : \A j \in dots : j <= i
LastSplit(s) == SubSeq(s, LastDot(s) + 1, Len(s))

\* str.strip() leaves something: some character is not whitespace
IsSpace(c) == c \in {9, 10, 11, 12, 13, 32}
StripNonEmpty(s) == \E i \in 1..Len(s) : ~IsSpace(s[i])

(***************************************************************************)
(* bytes.decode("utf-8"), strict                                           *)
(***************************************************************************)
IsCont(b) == b >= 128 /\ b <= 191

\* The number of bytes of the sequence that lead byte b opens, 0 when b opens none
SeqLen(b) ==
    IF b < 128 THEN 1
    ELSE IF b >= 194 /\ b <= 223 THEN 2
    ELSE IF b >= 224 /\ b <= 239 THEN 3
    ELSE IF b >= 240 /\ b <= 244 THEN 4
    ELSE 0

\* The second byte's range depends on the lead byte (no overlong forms, no
\* surrogates, nothing above U+10FFFF)
SecondOk(b, c) ==
    IF b = 224 THEN c >= 160 /\ c <= 191
    ELSE IF b = 237 THEN c >= 128 /\ c <= 159
    ELSE IF b = 240 THEN c >= 144 /\ c <= 191
    ELSE IF b = 244 THEN c >= 128 /\ c <= 143
    ELSE IsCont(c)

WellFormedAt(bs, i) ==
    LET n == SeqLen(bs[i])
    IN  /\ n > 0
        /\ i + n - 1 <= Len(bs)
        /\ n >= 2 => SecondOk(bs[i], bs[i + 1])
        /\ \A k \in 2..(n - 1) : IsCont(bs[i + k])

CodePointAt(bs, i) ==
    LET n == SeqLen(bs[i])
    IN  IF n = 1 THEN bs[i]
        ELSE IF n = 2 THEN (bs[i] - 192) * 64 + (bs[i + 1] - 128)
        ELSE IF n = 3 THEN (bs[i] - 224) * 4096 + (bs[i + 1] - 128) * 64
                           + (bs[i + 2] - 128)
        ELSE (bs[i] - 240) * 262144 + (bs[i + 1] - 128) * 4096
             + (bs[i + 2] - 128) * 64 + (bs[i + 3] - 128)

\* The code point cp in front of the decoded rest; an error in the rest is the
\* error of the whole
DecodeCons(cp, rest) ==
    IF rest.raised THEN rest
    ELSE [raised |-> FALSE, value |-> <<cp>> \o rest.value]

RECURSIVE DecodeFrom(_, _)
\* [raised |-> TRUE] for UnicodeDecodeError, else the decoded text
DecodeFrom(bs, i) ==
    IF i > Len(bs) THEN [raised |-> FALSE, value |-> <<>>]
    ELSE IF ~WellFormedAt(bs, i) THEN [raised |-> TRUE]
    ELSE DecodeCons(CodePointAt(bs, i), DecodeFrom(bs, i + SeqLen(bs[i])))

Utf8Decode(bs) == DecodeFrom(bs, 1)

(***************************************************************************)
(* Text extraction: CacheOptimizer.optimized_text_extraction and           *)
(* extract_text_optimized                                                  *)
(***************************************************************************)
ExtPdf == <<112, 100, 102>>                   \* "pdf"
ExtTxt == <<116, 120, 116>>                   \* "txt"
ExtData == <<100, 97, 116, 97>>               \* "data"
ExtCsv == <<99, 115, 118>>                    \* "csv"
Newline == <<10>>                             \* "\n"
Comma == <<44>>                               \* ","

\* "Error"
ErrorWord == <<69, 114, 114, 111, 114>>
\* "Error: Could not extract text from file"
ErrCouldNotExtract ==
    <<69, 114, 114, 111, 114, 58, 32, 67, 111, 117, 108, 100, 32, 110, 111,
      116, 32, 101, 120, 116, 114, 97, 99, 116, 32, 116, 101, 120, 116, 32,
      102, 114, 111, 109, 32, 102, 105, 108, 101>>
\* "Error extracting text: "
ErrExtractingPrefix ==
    <<69, 114, 114, 111, 114, 32, 101, 120, 116, 114, 97, 99, 116, 105, 110,
      103, 32, 116, 101, 120, 116, 58, 32>>
\* str(e) of the three exceptions the libraries raise, shortened
MsgDecode == <<117, 116, 102, 45, 56>>        \* "utf-8"
MsgFitz == <<102, 105, 116, 122>>             \* "fitz"
MsgPandas == <<99, 115, 118>>                 \* "csv"

\* File contents the uploads are drawn from
BytesReport ==      \* b"Patient has mild hypertension."
    <<80, 97, 116, 105, 101, 110, 116, 32, 104, 97, 115, 32, 109, 105, 108,
      100, 32, 104, 121, 112, 101, 114, 116, 101, 110, 115, 105, 111, 110, 46>>
BytesErrorRate ==   \* b"Error rate low"
    <<69, 114, 114, 111, 114, 32, 114, 97, 116, 101, 32, 108, 111, 119>>
BytesCafe == <<99, 97, 102, 195, 169>>        \* "cafe" with e-acute, 2-byte form
BytesEuro == <<226, 130, 172, 53>>            \* euro sign (3-byte form), "5"
BytesBlank == <<32, 10>>                      \* " \n"
BytesEmpty == <<>>
BytesBadStart == <<72, 105, 255>>             \* 0xFF opens no sequence
BytesTruncated == <<72, 195>>                 \* a 2-byte sequence cut short
BytesOverlong == <<192, 175>>                 \* overlong form of "/"
BytesPdf0 == <<37, 80, 68, 70, 0>>            \* "%PDF" documents of 0, 1, 2, 3 pages
BytesPdf1 == <<37, 80, 68, 70, 1>>
BytesPdf2 == <<37, 80, 68, 70, 2>>
BytesPdf3 == <<37, 80, 68, 70, 3>>
BytesCsv == <<97, 44, 98, 10, 49, 44, 50, 10>>    \* b"a,b\n1,2\n"

PageOne == <<66, 80, 32, 49, 53, 48, 47, 57, 53, 46>>            \* "BP 150/95."
PageTwo == <<65, 100, 118, 105, 115, 101, 32, 114, 101, 115, 116, 46>>  \* "Advise rest."
PageBlank == <<>>                                                 \* a page without text

\* fitz.open(stream=..., filetype="pdf") and page.get_text() of each page, in
\* document order; raises on bytes that are no PDF document
FitzPages(file_bytes) ==
    IF file_bytes = BytesPdf0 THEN [raised |-> FALSE, value |-> <<>>]
    ELSE IF file_bytes = BytesPdf1 THEN [raised |-> FALSE, value |-> <<PageBlank>>]
    ELSE IF file_bytes = BytesPdf2 THEN [raised |-> FALSE, value |-> <<PageOne, PageTwo>>]
    ELSE IF file_bytes = BytesPdf3
         THEN [raised |-> FALSE, value |-> <<PageTwo, PageBlank, PageOne>>]
    ELSE [raised |-> TRUE, msg |-> MsgFitz]

\* pd.read_csv(io.BytesIO(file_bytes)).to_string(index=False)
PandasToString(file_bytes) ==
    IF file_bytes = BytesCsv
    THEN [raised |-> FALSE, value |-> <<97, 32, 32, 98, 10, 49, 32, 32, 50>>]
    ELSE [raised |-> TRUE, msg |-> MsgPandas]

\* The loop of lines 136-141: text_chunks, one page.get_text() per page
RECURSIVE TextChunks(_)
TextChunks(pages) ==
    IF pages = <<>> THEN <<>> ELSE <<Head(pages)>> \o TextChunks(Tail(pages))

\* return "\n".join(text_chunks)
PdfJoinNoSeparator(text_chunks) == Concat(text_chunks)
PdfJoin(text_chunks) == Join(Newline, text_chunks)

\* Lines 131-144, the document opened: the pages' texts, joined
PdfText(doc) ==
    IF doc.raised THEN doc
    ELSE [raised |-> FALSE, value |-> PdfJoin(TextChunks(doc.value))]

\* Lines 146-147: file_bytes.decode('utf-8'), its UnicodeDecodeError not caught
DecodedText(d) == IF d.raised THEN [raised |-> TRUE, msg |-> MsgDecode] ELSE d

\* The body of CacheOptimizer.optimized_text_extraction(file_bytes, file_type):
\* [raised |-> FALSE, value |-> text] or [raised |-> TRUE, msg |-> str(e)]
OptimizedTextExtractionBody(file_bytes, file_type) ==
    IF file_type = ExtPdf THEN PdfText(FitzPages(file_bytes))
    ELSE IF file_type \in {ExtTxt, ExtData} THEN DecodedText(Utf8Decode(file_bytes))
    ELSE IF file_type = ExtCsv THEN PandasToString(file_bytes)
    ELSE [raised |-> FALSE, value |-> <<>>]

(***************************************************************************)
(* st.cache_data: one store per decorated function, a cachetools TTLCache  *)
(* (maxsize = max_entries, ttl = ttl, timer = time.monotonic).  `entries`  *)
(* holds a stored key's value and expiry time.  The TTLCache also keeps    *)
(* the entries in a list in insertion order, only to unlink the expired    *)
(* ones from its head; the timer never goes back and the ttl is one        *)
(* constant per store, so the list is in expiry order and its expired      *)
(* head is exactly the set of expired entries: `entries` is a set.         *)
(* `links` is the TTLCache's OrderedDict of keys, which a read moves to    *)
(* the end and from whose front popitem evicts.                            *)
(***************************************************************************)
ExtractMaxEntries == 5      \* main.py:160
ExtractTtl == 1800          \* main.py:160
InnerMaxEntries == 5        \* performance.py:128
InnerTtl == 1800            \* performance.py:128
SearchTtl == 3600           \* main.py:328
FetchTtl == 3600            \* main.py:349

Limit(n) == [limited |-> TRUE, n |-> n]
NoLimit == [limited |-> FALSE]     \* max_entries=None: maxsize = math.inf

\* @st.cache_data(ttl=3600), lines 328 and 349: no max_entries
SearchMaxEntries == NoLimit
FetchMaxEntries == NoLimit

EmptyCache == [entries |-> {}, links |-> <<>>]

CacheKeys(c) == {e.key : e \in c.entries}

Remove(seq, x) == SelectSeq(seq, LAMBDA y : y # x)
RemoveKeys(c, keys) ==
    [entries |-> {e \in c.entries : e.key \notin keys},
     links |-> SelectSeq(c.links, LAMBDA k : k \notin keys)]

EntryOf(c, key) == CHOOSE e \in c.entries : e.key = key

\* not (time < link.expires)
IsExpiredAfter(e, t) == e.expires < t
IsExpired(e, t) == ~(t < e.expires)

\* TTLCache.__contains__: the key is stored and not expired
CacheContains(c, key, t) ==
    /\ key \in CacheKeys(c)
    /\ ~IsExpired(EntryOf(c, key), t)

\* TTLCache.__getitem__ of a key it contains: the value; the key becomes the
\* most recently used
CacheValue(c, key) == EntryOf(c, key).value
CacheTouch(c, key) == [c EXCEPT !.links = Remove(c.links, key) \o <<key>>]

\* TTLCache.expire(time): unlink every expired entry
CacheExpire(c, t) ==
    RemoveKeys(c, {e.key : e \in {x \in c.entries : IsExpired(x, t)}})

\* TTLCache.popitem: expire, then drop the first key of `links`
DropFirst(live) == RemoveKeys(live, {Head(live.links)})
PopItem(c, t) == DropFirst(CacheExpire(c, t))

RECURSIVE MakeRoom(_, _, _)
\* Cache.__setitem__: while currsize + 1 > maxsize: popitem()
MakeRoomNoEviction(c, t, max_entries) == c
MakeRoom(c, t, max_entries) ==
    IF max_entries.limited /\ Cardinality(c.entries) + 1 > max_entries.n
    THEN MakeRoom(PopItem(c, t), t, max_entries)
    ELSE c

\* TTLCache.__setitem__ of a key the storage just missed: expire, make room,
\* store with expires = time + ttl, link as the most recently used
Store(room, key, value, expires) ==
    [entries |-> room.entries \cup
                    {[key |-> key, value |-> value, expires |-> expires]},
     links |-> Append(room.links, key)]
CacheSet(c, key, value, t, ttl, max_entries) ==
    Store(MakeRoom(RemoveKeys(CacheExpire(c, t), {key}), t, max_entries),
          key, value, t + ttl)

(***************************************************************************)
(* The cached extraction functions                                         *)
(***************************************************************************)
\* CacheOptimizer.optimized_text_extraction(file_bytes, file_type) through its
\* st.cache_data wrapper: a stored value, or the body's value, stored; an
\* exception of the body passes through and nothing is stored
InnerKey(file_bytes, file_type) == <<file_bytes, file_type>>
InnerHit(ic, key) ==
    [raised |-> FALSE, value |-> CacheValue(ic, key),
     ic |-> CacheTouch(ic, key), ran |-> <<>>]
InnerMiss(ic, key, res, t) ==
    IF res.raised
    THEN [raised |-> TRUE, msg |-> res.msg, ic |-> ic,
          ran |-> <<"optimized_text_extraction">>]
    ELSE [raised |-> FALSE, value |-> res.value,
          ic |-> CacheSet(ic, key, res.value, t, InnerTtl, Limit(InnerMaxEntries)),
          ran |-> <<"optimized_text_extraction">>]
OptimizedTextExtraction(ic, file_bytes, file_type, t) ==
    IF CacheContains(ic, InnerKey(file_bytes, file_type), t)
    THEN InnerHit(ic, InnerKey(file_bytes, file_type))
    ELSE InnerMiss(ic, InnerKey(file_bytes, file_type),
                   OptimizedTextExtractionBody(file_bytes, file_type), t)

\* file_name.split('.')[-1].lower()
FileExtension(file_name) == Lower(LastSplit(file_name))

\* The body of extract_text_optimized without its try/except: the exception
\* of the extraction leaves the function
Uncaught(res) ==
    IF res.raised
    THEN [raised |-> TRUE, value |-> <<>>, ic |-> res.ic, ran |-> res.ran]
    ELSE [raised |-> FALSE,
          value |-> IF res.value # <<>> THEN res.value ELSE ErrCouldNotExtract,
          ic |-> res.ic, ran |-> res.ran]
ExtractBodyUncaught(ic, file_bytes, file_name, t) ==
    Uncaught(OptimizedTextExtraction(ic, file_bytes, FileExtension(file_name), t))

\* The body of extract_text_optimized(file_bytes, file_name), lines 163-175
Caught(res) ==
    IF res.raised
    THEN \* except Exception as e: return f"Error extracting text: {e}"
         [raised |-> FALSE, value |-> ErrExtractingPrefix \o res.msg,
          ic |-> res.ic, ran |-> res.ran]
    ELSE \* return result if result else "Error: Could not extract text from file"
         [raised |-> FALSE,
          value |-> IF res.value # <<>> THEN res.value ELSE ErrCouldNotExtract,
          ic |-> res.ic, ran |-> res.ran]
ExtractBody(ic, file_bytes, file_name, t) ==
    Caught(OptimizedTextExtraction(ic, file_bytes, FileExtension(file_name), t))

\* The key st.cache_data derives from the arguments of extract_text_optimized
ExtractKey(file_bytes, file_name) == <<file_bytes, file_name>>

\* extract_text_optimized(file_bytes, file_name) through st.cache_data
\* (max_entries=5, ttl=1800); PerformanceMonitor.timer around it only measures
ExtractHit(ec, ic, key) ==
    [raised |-> FALSE, value |-> CacheValue(ec, key), hit |-> TRUE,
     ec |-> CacheTouch(ec, key), ic |-> ic, ran |-> <<>>]
ExtractMiss(ec, key, res, t) ==
    IF res.raised
    THEN [raised |-> TRUE, value |-> <<>>, hit |-> FALSE, ec |-> ec,
          ic |-> res.ic, ran |-> <<"extract_text_optimized">> \o res.ran]
    ELSE [raised |-> FALSE, value |-> res.value, hit |-> FALSE,
          ec |-> CacheSet(ec, key, res.value, t, ExtractTtl,
                          Limit(ExtractMaxEntries)),
          ic |-> res.ic, ran |-> <<"extract_text_optimized">> \o res.ran]
ExtractTextOptimized(ec, ic, file_bytes, file_name, t) ==
    IF CacheContains(ec, ExtractKey(file_bytes, file_name), t)
    THEN ExtractHit(ec, ic, ExtractKey(file_bytes, file_name))
    ELSE ExtractMiss(ec, ExtractKey(file_bytes, file_name),
                     ExtractBody(ic, file_bytes, file_name, t), t)

(***************************************************************************)
(* One script run.  A run is threaded through the blocks of main.py as a   *)
(* record: the session state and the caches as the run has left them so    *)
(* far, what it has displayed, requested and executed, and whether it is   *)
(* still running (an uncaught exception or st.stop() ends it).             *)
(***************************************************************************)
Has(ss, k) == k \in DOMAIN ss
SetKey(ss, k, v) == [x \in DOMAIN ss \cup {k} |-> IF x = k THEN v ELSE ss[x]]

\* PerformanceMonitor.timer and monitor_performance store a measurement under
\* the function's or component's name; the measured times are left out, the
\* names that have a measurement are kept
Measured(ss, dict, name) ==
    SetKey(ss, dict, (IF Has(ss, dict) THEN ss[dict] ELSE {}) \cup {name})

Elem(kind, label, text) == [kind |-> kind, label |-> label, text |-> text]

\* A cached function's body running for a key
Computation(fn, key) == [fn |-> fn, key |-> key]

PreviewLimit == 1000        \* main.py:197
Ellipsis == <<46, 46, 46>>  \* "..."

\* extracted[:1000] + "..." if len(extracted) > 1000 else extracted
PreviewText(extracted) ==
    IF Len(extracted) > PreviewLimit
    THEN Prefix(extracted, PreviewLimit) \o Ellipsis
    ELSE extracted

\* What a run starts from
Stored ==
    [ss |-> session_state, ec |-> extract_cache, ic |-> inner_cache,
     sc |-> search_cache, fc |-> fetch_cache, llm |-> llm_resource,
     disp |-> <<>>, reqs |-> <<>>, exec |-> <<>>, comp |-> {}, alive |-> TRUE]

\* Lines 115-152 of every run: render_header under monitor_performance
BeginRun(prev) ==
    [prev EXCEPT
       !.ss = Measured(prev.ss, "component_performance", "header_render"),
       !.disp = <<>>, !.reqs = <<>>, !.exec = <<>>, !.alive = TRUE]

\* if extracted and not extracted.startswith("Error")
ExtractionSucceeded(extracted) ==
    extracted # <<>> /\ ~StartsWith(extracted, ErrorWord)

\* Lines 184-205: the upload block, for the uploader's file (none: skipped)
UploadCalled(r, f, x) ==
    [r EXCEPT !.ec = x.ec, !.ic = x.ic,
              !.exec = r.exec \o x.ran,
              !.comp = IF x.hit THEN r.comp
                       ELSE r.comp \cup {Computation("extract_text_optimized",
                                                     ExtractKey(f.bytes, f.name))},
              !.disp = Append(r.disp, Elem("info", "File", f.name))]
\* The same, with the error value of a failed extraction stored as the
\* session's text
UploadShownStoring(base, x) ==
    IF x.raised
    THEN [base EXCEPT !.alive = FALSE,
                      !.disp = Append(base.disp,
                          Elem("exception", "extract_text_optimized", <<>>))]
    ELSE IF ExtractionSucceeded(x.value)
    THEN [base EXCEPT
            !.ss = SetKey(Measured(base.ss, "performance_metrics",
                                   "extract_text_optimized"),
                          "extracted_text", x.value),
            !.disp = base.disp \o
                <<Elem("success", "Text extracted successfully.", <<>>),
                  Elem("text_area", "Raw Extracted Text (Preview)",
                       PreviewText(x.value))>>]
    ELSE [base EXCEPT
            !.ss = SetKey(Measured(base.ss, "performance_metrics",
                                   "extract_text_optimized"),
                          "extracted_text", x.value),
            !.disp = Append(base.disp, Elem("error", "", x.value))]
UploadShown(base, x) ==
    IF x.raised
    THEN [base EXCEPT !.alive = FALSE,
                      !.disp = Append(base.disp,
                          Elem("exception", "extract_text_optimized", <<>>))]
    ELSE IF ExtractionSucceeded(x.value)
    THEN [base EXCEPT
            !.ss = SetKey(Measured(base.ss, "performance_metrics",
                                   "extract_text_optimized"),
                          "extracted_text", x.value),
            !.disp = base.disp \o
                <<Elem("success", "Text extracted successfully.", <<>>),
                  Elem("text_area", "Raw Extracted Text (Preview)",
                       PreviewText(x.value))>>]
    ELSE [base EXCEPT
            !.ss = Measured(base.ss, "performance_metrics",
                            "extract_text_optimized"),
            !.disp = Append(base.disp, Elem("error", "", x.value))]
UploadExtracted(r, f, x) == UploadShown(UploadCalled(r, f, x), x)
UploadBlock(r, file, t) ==
    IF ~r.alive \/ file = <<>> THEN r
    ELSE UploadExtracted(r, file[1],
             ExtractTextOptimized(r.ec, r.ic, file[1].bytes, file[1].name, t))

\* The end of a run: what it left becomes the state
Commit(r, ev) ==
    /\ session_state' = r.ss
    /\ extract_cache' = r.ec
    /\ inner_cache' = r.ic
    /\ search_cache' = r.sc
    /\ fetch_cache' = r.fc
    /\ llm_resource' = r.llm
    /\ display' = r.disp
    /\ requests' = r.reqs
    /\ executed' = r.exec
    /\ computed' = computed \cup r.comp
    /\ event' = ev

(***************************************************************************)
(* Inputs                                                                  *)
(***************************************************************************)
NameReportTxt == <<114, 101, 112, 111, 114, 116, 46, 116, 120, 116>>  \* "report.txt"
NameScanTXT == <<83, 67, 65, 78, 46, 84, 88, 84>>                     \* "SCAN.TXT"
NameLabData == <<108, 97, 98, 46, 100, 97, 116, 97>>                  \* "lab.data"
NameScanPdf == <<115, 99, 97, 110, 46, 112, 100, 102>>                \* "scan.pdf"
NameTCsv == <<116, 46, 99, 115, 118>>                                 \* "t.csv"
NameNotesDocx == <<110, 111, 116, 101, 115, 46, 100, 111, 99, 120>>   \* "notes.docx"
NameReadme == <<82, 69, 65, 68, 77, 69>>                              \* "README"
NameTxt == <<116, 120, 116>>                                          \* "txt"
NameABTxt == <<97, 46, 98, 46, 116, 120, 116>>                        \* "a.b.txt"

AllNames ==
    {NameReportTxt, NameScanTXT, NameLabData, NameScanPdf, NameTCsv,
     NameNotesDocx, NameReadme, NameTxt, NameABTxt}
AllBytes ==
    {BytesReport, BytesErrorRate, BytesCafe, BytesEuro, BytesBlank, BytesEmpty,
     BytesBadStart, BytesTruncated, BytesOverlong, BytesPdf0, BytesPdf1,
     BytesPdf2, BytesPdf3, BytesCsv}

File(name, bytes) == [name |-> name, bytes |-> bytes]
AllFiles == {File(n, b) : n \in AllNames, b \in AllBytes}

\* st.file_uploader(type=['pdf', 'data', 'txt', 'csv']) accepts a file by the
\* extension after its last dot, compared without case
UploaderTypes == {ExtPdf, ExtData, ExtTxt, ExtCsv}
UploaderAccepts(f) ==
    /\ LastDot(f.name) > 0
    /\ FileExtension(f.name) \in UploaderTypes

(***************************************************************************)
(* Summarise: generate_summary and the "Get Report Summary" block          *)
(***************************************************************************)
English == <<69, 110, 103, 108, 105, 115, 104>>
Hindi == <<72, 105, 110, 100, 105>>
Telugu == <<84, 101, 108, 117, 103, 117>>
Spanish == <<83, 112, 97, 110, 105, 115, 104>>
French == <<70, 114, 101, 110, 99, 104>>
German == <<71, 101, 114, 109, 97, 110>>
Chinese == <<67, 104, 105, 110, 101, 115, 101>>
\* languages = [...], line 261
Languages == {English, Hindi, Telugu, Spanish, French, German, Chinese}

Request(service, params) == [service |-> service, params |-> params]

\* get_llm() under st.cache_resource: the chains, built once; when they cannot
\* be built (no GEMINI_KEY, a failing import) st.error and st.stop(), whose
\* exception no "except Exception" catches, so the run ends there
GetLlm(r, llm) ==
    IF r.llm = "loaded" THEN r
    ELSE IF llm.kind = "unavailable"
    THEN [r EXCEPT !.alive = FALSE,
                   !.exec = Append(r.exec, "get_llm"),
                   !.disp = Append(r.disp, Elem("error", "Error loading Gemini API", <<>>))]
    ELSE [r EXCEPT !.llm = "loaded", !.exec = Append(r.exec, "get_llm")]

\* if language != "English" and include_translation
NeedsTranslationIgnoringLanguage(language, include_translation) ==
    include_translation
NeedsTranslation(language, include_translation) ==
    language # English /\ include_translation

\* generate_summary(report_text, language), lines 269-280, under
\* monitor_performance("summary_generation"): [r, raised, msg, summary,
\* translated], translated being <<>> for None and <<text>> otherwise
SummaryRaised(r, msg) ==
    [r |-> r, raised |-> TRUE, msg |-> msg, summary |-> <<>>, translated |-> <<>>]
SummaryReturned(r, summary, translated) ==
    [r |-> [r EXCEPT !.ss = Measured(r.ss, "component_performance",
                                     "summary_generation")],
     raised |-> FALSE, msg |-> "", summary |-> summary, translated |-> translated]
\* summary_chain.invoke({"report_text": report_text}), and the same with the
\* request sent a second time
SummaryRetried(r1, report_text) ==
    [r1 EXCEPT !.exec = Append(r1.exec, "generate_summary"),
               !.reqs = r1.reqs \o
                   <<Request("llm", [op |-> "summary", report_text |-> report_text]),
                     Request("llm", [op |-> "summary", report_text |-> report_text])>>]
SummaryRequested(r1, report_text) ==
    [r1 EXCEPT !.exec = Append(r1.exec, "generate_summary"),
               !.reqs = Append(r1.reqs,
                   Request("llm", [op |-> "summary", report_text |-> report_text]))]
\* GoogleTranslator(source='auto', target=language.lower()).translate(summary)
TranslationRequested(r2, language, text) ==
    [r2 EXCEPT !.reqs = Append(r2.reqs,
         Request("translator", [source |-> "auto", target |-> Lower(language),
                                text |-> text]))]
Translated(r3, summary, tr) ==
    IF tr.kind # "content" THEN SummaryRaised(r3, "translator")
    ELSE SummaryReturned(r3, summary, <<tr.text>>)
Summarized(r2, language, include_translation, llm, tr) ==
    IF llm.kind # "content" THEN SummaryRaised(r2, "llm")
    ELSE IF NeedsTranslation(language, include_translation)
    THEN Translated(TranslationRequested(r2, language, llm.text), llm.text, tr)
    ELSE SummaryReturned(r2, llm.text, <<>>)
SummaryWithChains(r1, report_text, language, include_translation, llm, tr) ==
    IF ~r1.alive THEN SummaryRaised(r1, "stopped")
    ELSE Summarized(SummaryRequested(r1, report_text), language,
                    include_translation, llm, tr)
GenerateSummary(r0, language, include_translation, llm, tr) ==
    SummaryWithChains(GetLlm(r0, llm), r0.ss["extracted_text"], language,
                      include_translation, llm, tr)

\* Lines 282-311, the button pressed
SummaryShown(stored, language, g) ==
    \* if translated_summary: neither None nor ""
    IF g.translated # <<>> /\ g.translated[1] # <<>>
    THEN [stored EXCEPT !.disp = stored.disp \o
            <<Elem("subheader", "Summary in", language),
              Elem("write", "", g.translated[1]),
              Elem("download_button", "Download summary in", g.translated[1])>>]
    ELSE [stored EXCEPT !.disp = stored.disp \o
            <<Elem("subheader", "AI Summary:", <<>>),
              Elem("write", "", g.summary),
              Elem("download_button", "Download summary", g.summary)>>]
SummaryResult(g, language) ==
    IF ~g.r.alive THEN g.r
    ELSE IF g.raised
    THEN [g.r EXCEPT !.disp = Append(g.r.disp,
              Elem("error", "Summary generation failed", <<>>))]
    ELSE SummaryShown([g.r EXCEPT !.ss = SetKey(g.r.ss, "summary", g.summary)],
                      language, g)
SummaryBlock(r, language, include_translation, llm, tr) ==
    IF ~r.alive THEN r
    ELSE IF ~(Has(r.ss, "extracted_text") /\ StripNonEmpty(r.ss["extracted_text"]))
    THEN [r EXCEPT !.disp = Append(r.disp,
              Elem("warning", "Please upload and extract a report first.", <<>>))]
    ELSE SummaryResult(GenerateSummary(r, language, include_translation, llm, tr),
                       language)

(***************************************************************************)
(* Answer: generate_answer and the "Generate Answer" block                 *)
(***************************************************************************)
\* qa_chain.invoke(report_text=..., question=...): Runnable.invoke takes its
\* input as its first positional argument; without one the call is a TypeError
\* and no request leaves
QaAnswered(sent, llm) ==
    IF llm.kind # "content"
    THEN [r |-> sent, raised |-> TRUE, content |-> <<>>]
    ELSE [r |-> sent, raised |-> FALSE, content |-> llm.text]
QaChainInvoke(r, positional, keywords, llm) ==
    IF Len(positional) = 0
    THEN [r |-> r, raised |-> TRUE, content |-> <<>>]
    ELSE QaAnswered([r EXCEPT !.reqs = Append(r.reqs,
                        Request("llm", [op |-> "qa", input |-> positional[1]]))],
                    llm)

\* generate_answer(question, report_text), lines 225-229, called with the
\* positional arguments `args` through monitor_performance's wrapper
\* (func(*args)): a call that does not give both parameters is a TypeError
AnswerMeasured(res) ==
    IF res.raised THEN res
    ELSE [res EXCEPT !.r.ss = Measured(res.r.ss, "component_performance",
                                       "qa_generation")]
AnswerWithChains(r1, args, llm) ==
    IF ~r1.alive THEN [r |-> r1, raised |-> TRUE, content |-> <<>>]
    ELSE AnswerMeasured(
             QaChainInvoke([r1 EXCEPT !.exec = Append(r1.exec, "generate_answer")],
                           <<>>,
                           [report_text |-> args[2], question |-> args[1]], llm))
GenerateAnswer(r0, args, llm) ==
    IF Len(args) # 2
    THEN [r |-> r0, raised |-> TRUE, content |-> <<>>]
    ELSE AnswerWithChains(GetLlm(r0, llm), args, llm)

\* Lines 231-252, the button pressed with the question qa in the text input
QaHistory(ss) == IF Has(ss, "qa_history") THEN ss["qa_history"] ELSE <<>>
AnswerResult(g, qa) ==
    IF ~g.r.alive THEN g.r
    ELSE IF g.raised
    THEN [g.r EXCEPT !.disp = Append(g.r.disp,
              Elem("error", "Failed to generate answer", <<>>))]
    ELSE [g.r EXCEPT
            !.disp = g.r.disp \o <<Elem("subheader", "Answer:", <<>>),
                                   Elem("markdown", "", g.content)>>,
            !.ss = SetKey(g.r.ss, "qa_history",
                          Append(QaHistory(g.r.ss),
                                 [question |-> qa, answer |-> g.content]))]
AnswerBlock(r, qa, llm) ==
    IF ~r.alive \/ qa = <<>> THEN r
    ELSE IF ~Has(r.ss, "extracted_text")
    THEN [r EXCEPT !.disp = Append(r.disp,
              Elem("warning", "Please upload and extract a report first.", <<>>))]
    ELSE \* generate_answer({"report_text": ..., "question": qa}): one argument
         AnswerResult(
             GenerateAnswer(r,
                 <<[report_text |-> r.ss["extracted_text"], question |-> qa]>>,
                 llm),
             qa)

(***************************************************************************)
(* PubMed search: search_pubmed_optimized, fetch_articles_optimized,       *)
(* parse_articles_optimized and the "Search Articles" block                *)
(***************************************************************************)
FetchCap == 10              \* main.py:357
AbstractLimit == 500        \* main.py:382
TitleLimit == 100           \* main.py:413

NoTitle == <<78, 111, 32, 116, 105, 116, 108, 101>>     \* "No title"
NoAbstract ==                                           \* "No abstract available"
    <<78, 111, 32, 97, 98, 115, 116, 114, 97, 99, 116, 32, 97, 118, 97, 105,
      108, 97, 98, 108, 101>>
PubmedUrlBase ==                                        \* "https://pubmed.ncbi.nlm.nih.gov/"
    <<104, 116, 116, 112, 115, 58, 47, 47, 112, 117, 98, 109, 101, 100, 46, 110,
      99, 98, 105, 46, 110, 108, 109, 46, 110, 105, 104, 46, 103, 111, 118, 47>>
Slash == <<47>>
Hash == <<35>>

\* A value st.cache_data stores for a function that shows elements while it
\* runs: the return value and the elements, which a later hit shows again
Cached(ret, msgs) == [ret |-> ret, msgs |-> msgs]

\* The body of search_pubmed_optimized(query, max_results), lines 331-347:
\* data.get("esearchresult", {}).get("idlist", []), or st.error and [] when the
\* request, raise_for_status or the JSON decoding raises
SearchPubmedBody(query, max_results, http) ==
    IF http.kind = "json"
    THEN Cached(http.idlist, <<>>)
    ELSE Cached(<<>>, <<Elem("error", "Error fetching PubMed IDs", <<>>)>>)

SearchKey(query, max_results) == <<query, max_results>>

\* search_pubmed_optimized through st.cache_data(ttl=3600), under
\* monitor_performance("pubmed_search")
SearchHit(r, key, v) ==
    [r |-> [r EXCEPT !.sc = CacheTouch(r.sc, key),
                     !.disp = r.disp \o v.msgs,
                     !.ss = Measured(r.ss, "component_performance", "pubmed_search")],
     ret |-> v.ret, hit |-> TRUE]
SearchMiss(r, key, v, query, max_results, t) ==
    [r |-> [r EXCEPT
              !.sc = CacheSet(r.sc, key, v, t, SearchTtl, SearchMaxEntries),
              !.disp = r.disp \o v.msgs,
              !.reqs = Append(r.reqs,
                  Request("esearch", [db |-> "pubmed", term |-> query,
                                      retmax |-> max_results,
                                      retmode |-> "json",
                                      sort |-> "relevance"])),
              !.exec = Append(r.exec, "search_pubmed_optimized"),
              !.comp = r.comp \cup {Computation("search_pubmed_optimized", key)},
              !.ss = Measured(r.ss, "component_performance", "pubmed_search")],
     ret |-> v.ret, hit |-> FALSE]
SearchPubmedOptimized(r, query, max_results, http, t) ==
    IF CacheContains(r.sc, SearchKey(query, max_results), t)
    THEN SearchHit(r, SearchKey(query, max_results),
                   CacheValue(r.sc, SearchKey(query, max_results)))
    ELSE SearchMiss(r, SearchKey(query, max_results),
                    SearchPubmedBody(query, max_results, http),
                    query, max_results, t)

\* The text of a response, as far as the script looks at it: whether it is
\* empty, whether it is well-formed XML, and the elements below its root
XmlText(empty, wellformed, children) ==
    [empty |-> empty, wellformed |-> wellformed, children |-> children]
EmptyText == XmlText(TRUE, FALSE, <<>>)

\* ",".join(pmid_list[:10])
FetchIdsUncapped(pmid_list) == Join(Comma, pmid_list)
FetchIds(pmid_list) == Join(Comma, Prefix(pmid_list, FetchCap))

\* fetch_articles_optimized(pmid_list) through st.cache_data(ttl=3600), lines
\* 349-368: "" for an empty list, without a request; response.text, or
\* st.error and "" when the request or raise_for_status raises
FetchArticlesBody(pmid_list, http) ==
    IF pmid_list = <<>> THEN Cached(EmptyText, <<>>)
    ELSE IF http.kind = "text" THEN Cached(http.text, <<>>)
    ELSE Cached(EmptyText, <<Elem("error", "Error fetching article details", <<>>)>>)
FetchHit(r, pmid_list, v) ==
    [r |-> [r EXCEPT !.fc = CacheTouch(r.fc, pmid_list),
                     !.disp = r.disp \o v.msgs],
     ret |-> v.ret]
FetchMiss(r, pmid_list, v, t) ==
    [r |-> [r EXCEPT
              !.fc = CacheSet(r.fc, pmid_list, v, t, FetchTtl, FetchMaxEntries),
              !.disp = r.disp \o v.msgs,
              !.reqs = IF pmid_list # <<>>
                       THEN Append(r.reqs,
                                Request("efetch", [db |-> "pubmed",
                                                   id |-> FetchIds(pmid_list),
                                                   retmode |-> "xml"]))
                       ELSE r.reqs,
              !.exec = Append(r.exec, "fetch_articles_optimized"),
              !.comp = r.comp \cup
                  {Computation("fetch_articles_optimized", pmid_list)}],
     ret |-> v.ret]
FetchArticlesOptimized(r, pmid_list, http, t) ==
    IF CacheContains(r.fc, pmid_list, t)
    THEN FetchHit(r, pmid_list, CacheValue(r.fc, pmid_list))
    ELSE FetchMiss(r, pmid_list, FetchArticlesBody(pmid_list, http), t)

\* An optional text: <<>> for None (no such element), <<s>> for the text s
Truthy(opt) == opt # <<>> /\ opt[1] # <<>>

\* article.findtext(path, default=...)
FindTextNoDefault(opt, default) == IF opt = <<>> THEN <<>> ELSE opt[1]
FindText(opt, default) == IF opt = <<>> THEN default ELSE opt[1]

\* if len(abstract) > 500: abstract = abstract[:500] + "..."
TruncateAbstract(abstract) ==
    IF Len(abstract) > AbstractLimit
    THEN Prefix(abstract, AbstractLimit) \o Ellipsis
    ELSE abstract

\* f"https://pubmed.ncbi.nlm.nih.gov/{pmid}/" if pmid else "#"
ArticleUrl(pmid) ==
    IF Truthy(pmid) THEN PubmedUrlBase \o pmid[1] \o Slash ELSE Hash

\* Lines 377-391: the record of one PubmedArticle element; pmid is the text of
\* its first PMID descendant
ArticleRecord(article) ==
    LET pmid == IF article.pmids = <<>> THEN <<>> ELSE <<Head(article.pmids)>>
    IN  [title |-> FindText(article.title, NoTitle),
         abstract |-> TruncateAbstract(FindText(article.abstract, NoAbstract)),
         url |-> ArticleUrl(pmid),
         pmid |-> pmid]

RECURSIVE ArticleRecords(_)
\* for article in root.findall(".//PubmedArticle"): articles.append({...})
ArticleRecords(children) ==
    IF children = <<>> THEN <<>>
    ELSE IF Head(children).tag = "PubmedArticle"
    THEN <<ArticleRecord(Head(children))>> \o ArticleRecords(Tail(children))
    ELSE ArticleRecords(Tail(children))

\* parse_articles_optimized(xml_data), lines 370-394: ET.fromstring raises on
\* text that is not well-formed; the except shows the error and the list built
\* so far, which is then empty, is returned
ParseArticlesOptimized(xml_data) ==
    IF xml_data.empty \/ ~xml_data.wellformed
    THEN [raised |-> FALSE, articles |-> <<>>,
          msgs |-> <<Elem("error", "Error parsing articles", <<>>)>>]
    ELSE [raised |-> FALSE, articles |-> ArticleRecords(xml_data.children),
          msgs |-> <<>>]

\* art['title'][:100] + ('...' if len(art['title']) > 100 else '')
ExpanderTitle(title) ==
    Prefix(title, TitleLimit) \o (IF Len(title) > TitleLimit THEN Ellipsis ELSE <<>>)

RECURSIVE ShowArticles(_)
\* Lines 412-417
ShowArticles(articles) ==
    IF articles = <<>> THEN <<>>
    ELSE LET art == Head(articles)
         IN  <<Elem("expander", "Article", ExpanderTitle(art.title)),
               Elem("write", "Abstract", art.abstract),
               Elem("markdown", "Read on PubMed", art.url)>>
             \o (IF Truthy(art.pmid)
                 THEN <<Elem("caption", "PMID", art.pmid[1])>> ELSE <<>>)
             \o ShowArticles(Tail(articles))

\* if not pmids
NoIdentifiersNever(pmids) == FALSE
NoIdentifiers(pmids) == pmids = <<>>

\* Lines 396-423, the button pressed
ArticlesShown(parsed, p) ==
    IF p.articles # <<>>
    THEN [parsed EXCEPT !.disp = parsed.disp \o
            <<Elem("success", "Found articles", <<Len(p.articles)>>)>>
            \o ShowArticles(p.articles)]
    ELSE [parsed EXCEPT !.disp = Append(parsed.disp,
            Elem("warning", "No articles found for the query.", <<>>))]
ArticlesParsed(r, p) ==
    ArticlesShown([r EXCEPT !.disp = r.disp \o p.msgs,
                            !.exec = Append(r.exec, "parse_articles_optimized")],
                  p)
ArticlesFetched(f) ==
    IF f.ret.empty
    THEN [f.r EXCEPT !.disp = Append(f.r.disp,
              Elem("warning", "Failed to fetch article details.", <<>>))]
    ELSE ArticlesParsed(f.r, ParseArticlesOptimized(f.ret))
IdentifiersFound(s, http_fetch, t) ==
    IF NoIdentifiers(s.ret)
    THEN [s.r EXCEPT !.disp = Append(s.r.disp,
              Elem("warning", "No results found for the query.", <<>>))]
    ELSE ArticlesFetched(FetchArticlesOptimized(s.r, s.ret, http_fetch, t))
SearchBlock(r, query, choice, http_search, http_fetch, t) ==
    IF ~r.alive THEN r
    ELSE IF ~StripNonEmpty(query)
    THEN [r EXCEPT !.disp = Append(r.disp,
              Elem("warning", "Please enter a valid search term.", <<>>))]
    ELSE IdentifiersFound(SearchPubmedOptimized(r, query, choice, http_search, t),
                          http_fetch, t)

(***************************************************************************)
(* What the outside world answers: inputs of the actions                   *)
(***************************************************************************)
SummaryText ==      \* "Patient shows mild hypertension."
    <<80, 97, 116, 105, 101, 110, 116, 32, 115, 104, 111, 119, 115, 32, 109, 105,
      108, 100, 32, 104, 121, 112, 101, 114, 116, 101, 110, 115, 105, 111, 110, 46>>
TranslatedText ==   \* "Halka ucch raktachaap."
    <<72, 97, 108, 107, 97, 32, 117, 99, 99, 104, 32, 114, 97, 107, 116, 97, 99,
      104, 97, 97, 112, 46>>
QuestionText ==     \* "What is my BP?"
    <<87, 104, 97, 116, 32, 105, 115, 32, 109, 121, 32, 66, 80, 63>>

Outcome(kind, text) == [kind |-> kind, text |-> text]
\* The LLM call: generated content, an exception, or (while get_llm has never
\* succeeded) chains that cannot be built
LlmOutcomes ==
    {Outcome("content", SummaryText), Outcome("error", <<>>),
     Outcome("unavailable", <<>>), Outcome("none", <<>>)}
\* GoogleTranslator(...).translate: a translation, an empty one, or an exception
TranslatorOutcomes ==
    {Outcome("content", TranslatedText), Outcome("content", <<>>),
     Outcome("error", <<>>), Outcome("none", <<>>)}

NoResponse == Outcome("none", <<>>)

\* Whether the run r sent a request to `service`
Requested(r, service) == \E i \in 1..Len(r.reqs) : r.reqs[i].service = service
\* An answer of the outside world is an input only of a run that asks for it
Consumed(outcome, asked) == (outcome # NoResponse) <=> asked

(***************************************************************************)
(* The state after the page has loaded: one run with no file and no button *)
(***************************************************************************)
Loaded ==
    /\ now = 0
    /\ uploaded_file = <<>>
    /\ session_state = [k \in {"component_performance"} |-> {"header_render"}]
    /\ extract_cache = EmptyCache
    /\ inner_cache = EmptyCache
    /\ search_cache = EmptyCache
    /\ fetch_cache = EmptyCache
    /\ llm_resource = "unloaded"
    /\ event = [type |-> "load"]
    /\ display = <<>>
    /\ requests = <<>>
    /\ executed = <<>>
    /\ computed = {}

\* The clock of a behaviour: it advances `ticks` times by `seconds`
Clock(ticks, seconds) == [ticks |-> ticks, seconds |-> seconds]
NoClock == Clock(0, 0)

\* What one behaviour draws its inputs from (lookups and fetches: what the two
\* PubMed services may answer), and its clock
Inputs(files, topics, choices, lookups, fetches, clock) ==
    [files |-> files, topics |-> topics, choices |-> choices,
     lookups |-> lookups, fetches |-> fetches, clock |-> clock]

(***************************************************************************)
(* The interactions: each is one script run at time `now`                  *)
(***************************************************************************)
\* Lines 115-205 of a run, with the uploader holding `file`
Top(prev, file) == UploadBlock(BeginRun(prev), file, now)

\* A file is put into the uploader
Upload(f) ==
    /\ UploaderAccepts(f)
    /\ uploaded_file' = <<f>>
    /\ Commit(Top(Stored, <<f>>), [type |-> "upload", file |-> f])
    /\ UNCHANGED <<inputs, now>>

\* The uploader's file is removed
RemoveFile ==
    /\ uploaded_file # <<>>
    /\ uploaded_file' = <<>>
    /\ Commit(BeginRun(Stored), [type |-> "remove"])
    /\ UNCHANGED <<inputs, now>>

\* A widget changes (a question is typed, a language selected, ...): a run in
\* which no button is pressed
Rerun ==
    /\ Commit(Top(Stored, uploaded_file), [type |-> "rerun"])
    /\ UNCHANGED <<inputs, now, uploaded_file>>

\* "Clear", lines 220-223: the run reaches st.rerun() and a second run follows
ClearRerun(first) == IF first.alive THEN Top(first, uploaded_file) ELSE first
ClearQa ==
    /\ Commit(ClearRerun(Top(Stored, uploaded_file)), [type |-> "clear_qa"])
    /\ UNCHANGED <<inputs, now, uploaded_file>>

\* The button blocks below continue a run `top` that has come through
\* Top(Stored, uploaded_file)

\* "Get Report Summary" with the selected language and the checkbox as set
SummarizeRun(r, language, include_translation, llm, tr) ==
    /\ Consumed(llm, Requested(r, "llm") \/ ~r.alive)
    /\ Consumed(tr, Requested(r, "translator"))
    /\ Commit(r, [type |-> "summarize", language |-> language,
                  include_translation |-> include_translation,
                  llm |-> llm, tr |-> tr])
Summarize(top, language, include_translation, llm, tr) ==
    /\ llm.kind = "unavailable" => llm_resource = "unloaded"
    /\ SummarizeRun(SummaryBlock(top, language, include_translation, llm, tr),
                   language, include_translation, llm, tr)
    /\ UNCHANGED <<inputs, now, uploaded_file>>

\* "Generate Answer" with the text input holding qa
AnswerRun(r, qa, llm) ==
    /\ Consumed(llm, Requested(r, "llm") \/ ~r.alive)
    /\ Commit(r, [type |-> "answer", qa |-> qa, llm |-> llm])
Answer(top, qa, llm) ==
    /\ llm.kind = "unavailable" => llm_resource = "unloaded"
    /\ AnswerRun(AnswerBlock(top, qa, llm), qa, llm)
    /\ UNCHANGED <<inputs, now, uploaded_file>>

\* "Search Articles" with the topic and the number of articles as set
SearchRun(r, query, choice, http_search, http_fetch) ==
    /\ Consumed(http_search, Requested(r, "esearch"))
    /\ Consumed(http_fetch, Requested(r, "efetch"))
    /\ Commit(r, [type |-> "search", query |-> query, choice |-> choice,
                  http_search |-> http_search, http_fetch |-> http_fetch])
Search(top, query, choice, http_search, http_fetch) ==
    /\ SearchRun(SearchBlock(top, query, choice, http_search, http_fetch, now),
                 query, choice, http_search, http_fetch)
    /\ UNCHANGED <<inputs, now, uploaded_file>>

\* Time passes between two interactions
TickSeconds == 1800
MaxTicks == 2
Tick ==
    /\ now < inputs.clock.ticks * inputs.clock.seconds
    /\ now' = now + inputs.clock.seconds
    /\ computed' = {}
    /\ UNCHANGED <<inputs, uploaded_file, session_state, extract_cache,
                   inner_cache, search_cache, fetch_cache, llm_resource, event,
                   display, requests, executed>>

(***************************************************************************)
(* extract_text_optimized called on its own, on any bytes and any name     *)
(***************************************************************************)
MaxDistinctCalls == 1

ExtractReturned(f, x) ==
    /\ extract_cache' = x.ec
    /\ inner_cache' = x.ic
    /\ executed' = x.ran
    /\ event' = [type |-> "extract_call", file |-> f, raised |-> x.raised,
                 hit |-> x.hit, result |-> x.value]
    /\ computed' = IF x.hit THEN computed
                   ELSE computed \cup {Computation("extract_text_optimized",
                                                   ExtractKey(f.bytes, f.name))}
ExtractCall(f) ==
    /\ \/ ExtractKey(f.bytes, f.name) \in CacheKeys(extract_cache)
       \/ Cardinality(extract_cache.entries) < MaxDistinctCalls
    /\ ExtractReturned(f, ExtractTextOptimized(extract_cache, inner_cache,
                                               f.bytes, f.name, now))
    /\ UNCHANGED <<inputs, now, uploaded_file, session_state, search_cache,
                   fetch_cache, llm_resource, display, requests>>

InitExtract == Loaded /\ inputs = Inputs(AllFiles, {}, {}, {}, {}, NoClock)
NextExtract == \E f \in inputs.files : ExtractCall(f)
SpecExtract == InitExtract /\ [][NextExtract]_vars

(***************************************************************************)
(* A session on the report: upload, summarise, ask                         *)
(***************************************************************************)
SessionFiles ==
    {File(NameReportTxt, BytesReport), File(NameLabData, BytesErrorRate),
     File(NameScanTXT, BytesBadStart), File(NameReportTxt, BytesBlank)}
Questions == {QuestionText, <<>>}
SessionLanguages == {English, Hindi, Chinese}

InitSession == Loaded /\ inputs = Inputs(SessionFiles, {}, {}, {}, {}, NoClock)
SummarizeAny(top) ==
    \E language \in SessionLanguages, include_translation \in BOOLEAN,
       llm \in LlmOutcomes, tr \in TranslatorOutcomes :
         Summarize(top, language, include_translation, llm, tr)
AnswerAny(top) == \E qa \in Questions, llm \in LlmOutcomes : Answer(top, qa, llm)
NextSession ==
    \/ \E f \in inputs.files : Upload(f)
    \/ RemoveFile
    \/ Rerun
    \/ ClearQa
    \/ SummarizeAny(Top(Stored, uploaded_file))
    \/ AnswerAny(Top(Stored, uploaded_file))
SpecSession == InitSession /\ [][NextSession]_vars

(***************************************************************************)
(* A literature search: the "Search Articles" button, with what the two    *)
(* PubMed services answer as inputs                                        *)
(***************************************************************************)
RECURSIVE Digits(_)
\* str(n) for a natural number n
Digits(n) == IF n < 10 THEN <<48 + n>> ELSE Digits(n \div 10) \o <<48 + (n % 10)>>

\* The identifier of the i-th record, and a list of n identifiers
PmidOf(i) == Digits(4000 + i)
IdList(n) == [i \in 1..n |-> PmidOf(i)]

TitleOf(i) == <<83, 116, 117, 100, 121, 32>> \o Digits(i)         \* "Study i"
AbstractOf(i) == <<70, 105, 110, 100, 105, 110, 103, 32>> \o Digits(i)  \* "Finding i"
\* An abstract of AbstractLimit + 1 characters
LongAbstractOf(i) == [k \in 1..(AbstractLimit + 1) |-> 97 + i]

Element(tag, title, abstract, pmids) ==
    [tag |-> tag, title |-> title, abstract |-> abstract, pmids |-> pmids]

\* The shapes a record of a payload is drawn from: complete; without a title;
\* without an abstract; with a long abstract; without an identifier; with
\* empty title, abstract and identifier elements; with a second identifier
\* (of a cited record) after its own; and a PubmedBookArticle
Shapes == {"full", "no_title", "no_abstract", "long", "no_pmid", "blank",
           "two_pmids", "book"}
ElementAt(shape, i) ==
    CASE shape = "full" ->
            Element("PubmedArticle", <<TitleOf(i)>>, <<AbstractOf(i)>>, <<PmidOf(i)>>)
      [] shape = "no_title" ->
            Element("PubmedArticle", <<>>, <<AbstractOf(i)>>, <<PmidOf(i)>>)
      [] shape = "no_abstract" ->
            Element("PubmedArticle", <<TitleOf(i)>>, <<>>, <<PmidOf(i)>>)
      [] shape = "long" ->
            Element("PubmedArticle", <<TitleOf(i)>>, <<LongAbstractOf(i)>>, <<PmidOf(i)>>)
      [] shape = "no_pmid" ->
            Element("PubmedArticle", <<TitleOf(i)>>, <<AbstractOf(i)>>, <<>>)
      [] shape = "blank" ->
            Element("PubmedArticle", <<<<>>>>, <<<<>>>>, <<<<>>>>)
      [] shape = "two_pmids" ->
            Element("PubmedArticle", <<TitleOf(i)>>, <<AbstractOf(i)>>,
                    <<PmidOf(i), PmidOf(i + 50)>>)
      [] shape = "book" ->
            Element("PubmedBookArticle", <<TitleOf(i)>>, <<AbstractOf(i)>>, <<PmidOf(i)>>)

\* A well-formed PubmedArticleSet whose i-th element has the i-th shape
ArticleSet(shapes) ==
    XmlText(FALSE, TRUE, [i \in 1..Len(shapes) |-> ElementAt(shapes[i], i)])
\* Text that is not well-formed XML: the parser finds no element in it
Malformed == XmlText(FALSE, FALSE, <<>>)

HttpJson(idlist) == [kind |-> "json", idlist |-> idlist]
HttpText(text) == [kind |-> "text", text |-> text]
HttpError == Outcome("error", <<>>)

TopicFlu == <<102, 108, 117>>       \* "flu"
TopicBlank == <<32>>                \* " "

MaxIds == 12
SearchIdLists == {IdList(0), IdList(3), IdList(FetchCap), IdList(MaxIds)}
SearchPayloads ==
    {ArticleSet(<<"full", "no_title">>), ArticleSet(<<>>), EmptyText, Malformed}

\* What a run is answered: one of the behaviour's answers, or nothing when
\* it does not ask
SearchOutcomes == inputs.lookups \cup {NoResponse}
FetchOutcomes == inputs.fetches \cup {NoResponse}

InitSearch ==
    Loaded /\ inputs = Inputs({}, {TopicFlu, TopicBlank}, {3, 5},
                              {HttpJson(l) : l \in SearchIdLists} \cup {HttpError},
                              {HttpText(x) : x \in SearchPayloads} \cup {HttpError},
                              NoClock)
SearchAny(top) ==
    \E query \in inputs.topics, choice \in inputs.choices,
       http_search \in SearchOutcomes, http_fetch \in FetchOutcomes :
         Search(top, query, choice, http_search, http_fetch)
NextSearch == SearchAny(Top(Stored, uploaded_file))
SpecSearch == InitSearch /\ [][NextSearch]_vars

(***************************************************************************)
(* parse_articles_optimized called on its own, on any payload: the payload *)
(* is drawn when the behaviour starts and the call is made on it           *)
(***************************************************************************)
MaxArticles == 3

RECURSIVE ShapeLists(_)
\* The sequences of n shapes
ShapeLists(n) ==
    IF n = 0 THEN {<<>>}
    ELSE {Append(s, x) : s \in ShapeLists(n - 1), x \in Shapes}

ParsePayloads ==
    {ArticleSet(s) : s \in UNION {ShapeLists(n) : n \in 0..MaxArticles}}
        \cup {EmptyText, Malformed}

ParseReturned(xml_data, p) ==
    /\ event' = [type |-> "parse_call", xml_data |-> xml_data,
                 raised |-> p.raised, articles |-> p.articles]
    /\ display' = p.msgs
    /\ executed' = <<"parse_articles_optimized">>
ParseCall(xml_data) ==
    /\ event.type = "load"
    /\ ParseReturned(xml_data, ParseArticlesOptimized(xml_data))
    /\ UNCHANGED <<computed, inputs, now, uploaded_file, session_state, extract_cache,
                   inner_cache, search_cache, fetch_cache, llm_resource, requests>>

InitParse ==
    Loaded /\ \E xml_data \in ParsePayloads :
                 inputs = Inputs({}, {}, {}, {}, {HttpText(xml_data)}, NoClock)
NextParse == \E http \in inputs.fetches : ParseCall(http.text)
SpecParse == InitParse /\ [][NextParse]_vars

(***************************************************************************)
(* The four caches over time: uploads of more files than the extraction    *)
(* cache holds, lookups of more keys than that, and either over the clock  *)
(***************************************************************************)
\* "a.txt", "b.txt", ...: files of one content under different names
CacheFileName(i) == <<96 + i>> \o <<46, 116, 120, 116>>
ManyFiles == {File(CacheFileName(i), BytesCafe) : i \in 1..(ExtractMaxEntries + 1)}
FewFiles == {File(CacheFileName(i), BytesCafe) : i \in 1..2}

TopicAsthma == <<97, 115, 116, 104, 109, 97>>       \* "asthma"
TopicGout == <<103, 111, 117, 116>>                 \* "gout"

\* More files than the extraction cache holds, over half its ttl; two files
\* over the ttl; more lookups than the extraction cache would hold; two lookups
\* over their ttl
CacheProfiles ==
    {Inputs(ManyFiles, {}, {}, {}, {}, Clock(1, ExtractTtl \div 2)),
     Inputs(FewFiles, {}, {}, {}, {}, Clock(MaxTicks, TickSeconds)),
     Inputs({}, {TopicFlu, TopicAsthma, TopicGout}, {3, 5},
            {HttpJson(IdList(1))}, {HttpText(ArticleSet(<<"full">>))}, NoClock),
     Inputs({}, {TopicFlu}, {3, 5}, {HttpJson(IdList(2)), HttpError},
            {HttpText(ArticleSet(<<"full", "full">>)), HttpError},
            Clock(MaxTicks, TickSeconds))}

InitCache == Loaded /\ inputs \in CacheProfiles
NextCache ==
    \/ \E f \in inputs.files : Upload(f)
    \/ SearchAny(Top(Stored, uploaded_file))
    \/ Tick
SpecCache == InitCache /\ [][NextCache]_vars

(***************************************************************************)
(* The three buttons in one session: a report is uploaded, summarised and  *)
(* asked about, and the literature is searched                             *)
(***************************************************************************)
ButtonFiles == {File(NameReportTxt, BytesReport), File(NameReportTxt, BytesBlank)}

InitButtons ==
    Loaded /\ inputs = Inputs(ButtonFiles, {TopicFlu}, {5},
                              {HttpJson(IdList(2)), HttpError},
                              {HttpText(ArticleSet(<<"full", "full">>)), HttpError},
                              NoClock)
NextButtons ==
    \/ \E f \in inputs.files : Upload(f)
    \/ SummarizeAny(Top(Stored, uploaded_file))
    \/ AnswerAny(Top(Stored, uploaded_file))
    \/ SearchAny(Top(Stored, uploaded_file))
SpecButtons == InitButtons /\ [][NextButtons]_vars

(***************************************************************************)
(* Claims about extract_text_optimized as a function (SpecExtract)         *)
(***************************************************************************)
IsErrorValue(s) == StartsWith(s, ErrorWord)
CalledExtract == event.type = "extract_call"
CalledExt == FileExtension(event.file.name)

\* C3: extract_text_optimized never raises.  Every call returns the text the
\* extraction produced or a string that begins with "Error"; a name whose
\* suffix is none of pdf, txt, data, csv gives an error value, and so do bytes
\* that are not valid UTF-8 under a txt or data suffix.
C3_ExtractNeverRaises ==
    CalledExtract =>
        /\ ~event.raised
        /\ \/ IsErrorValue(event.result)
           \/ LET body == OptimizedTextExtractionBody(event.file.bytes, CalledExt)
              IN  ~body.raised /\ event.result = body.value /\ event.result # <<>>
        /\ CalledExt \notin {ExtPdf, ExtTxt, ExtData, ExtCsv}
               => IsErrorValue(event.result)
        /\ (CalledExt \in {ExtTxt, ExtData} /\ Utf8Decode(event.file.bytes).raised)
               => IsErrorValue(event.result)

\* C3's case: a call on bytes that are not valid UTF-8 under a .TXT name has
\* returned the error value of the except branch
C3_Witness ==
    /\ CalledExtract
    /\ event.file = File(NameScanTXT, BytesBadStart)
    /\ ~event.raised
    /\ event.result = ErrExtractingPrefix \o MsgDecode

\* C3's second case: an unsupported suffix has returned an error value
C3_WitnessUnsupported ==
    /\ CalledExtract
    /\ event.file = File(NameNotesDocx, BytesReport)
    /\ event.result = ErrCouldNotExtract

CalledPdf ==
    /\ CalledExtract
    /\ CalledExt = ExtPdf
    /\ ~FitzPages(event.file.bytes).raised
CalledPages == FitzPages(event.file.bytes).value

RECURSIVE TotalLen(_)
TotalLen(pages) ==
    IF pages = <<>> THEN 0 ELSE Len(Head(pages)) + TotalLen(Tail(pages))

\* Where page i starts in the text of a document whose pages are `sep` apart
PageStart(pages, i, sep) == TotalLen(SubSeq(pages, 1, i - 1)) + (i - 1) * sep + 1

\* `text` is the pages in order with `sep` newlines between consecutive pages
PagesLaidOut(text, pages, sep) ==
    /\ Len(text) = TotalLen(pages) + (Len(pages) - 1) * sep
    /\ \A i \in 1..Len(pages) :
          /\ SubSeq(text, PageStart(pages, i, sep),
                    PageStart(pages, i, sep) + Len(pages[i]) - 1) = pages[i]
          /\ (i < Len(pages) /\ sep = 1)
                => text[PageStart(pages, i, sep) + Len(pages[i])] = 10

\* C5 as claimed: the text extracted from a PDF is its page texts in document
\* order with nothing between consecutive pages.
C5_NoSeparator ==
    (CalledPdf /\ TotalLen(CalledPages) > 0)
        => PagesLaidOut(event.result, CalledPages, 0)

\* C5 as amended: the text extracted from a PDF is its page texts in document
\* order with exactly one newline between consecutive pages (n pages, n - 1
\* newlines); when that text is empty the call returns the error value.
C5_NewlineSeparated ==
    CalledPdf =>
        IF TotalLen(CalledPages) + Len(CalledPages) > 1
        THEN PagesLaidOut(event.result, CalledPages, 1)
        ELSE event.result = ErrCouldNotExtract

\* C5's case: the three-page document, its second page blank, was extracted
C5_Witness ==
    /\ CalledPdf
    /\ event.file.bytes = BytesPdf3
    /\ event.result = PageTwo \o <<10, 10>> \o PageOne


(***************************************************************************)
(* Claims about a session on the report (SpecSession)                      *)
(***************************************************************************)
Shows(kind) == \E i \in 1..Len(display) : display[i].kind = kind
ShowsText(kind, text) ==
    \E i \in 1..Len(display) : display[i].kind = kind /\ display[i].text = text
Sent(service) == \E i \in 1..Len(requests) : requests[i].service = service

\* The run was an upload of a .txt or .data file whose bytes are a non-empty
\* valid UTF-8 string
UploadedValidText ==
    /\ event.type = "upload"
    /\ FileExtension(event.file.name) \in {ExtTxt, ExtData}
    /\ ~Utf8Decode(event.file.bytes).raised
    /\ Utf8Decode(event.file.bytes).value # <<>>

\* C4 as claimed: after the upload of a .txt or .data file whose bytes are a
\* non-empty valid UTF-8 string s, the session's extracted text equals s and no
\* error is shown.
C4_ValidTextUploadSucceeds ==
    UploadedValidText =>
        /\ Has(session_state, "extracted_text")
        /\ session_state["extracted_text"] = Utf8Decode(event.file.bytes).value
        /\ ~Shows("error")
        /\ ~Shows("exception")

\* C4's failing case: lab.data holding "Error rate low" was uploaded first; the
\* run showed the file's own text as an error and the session has no text
C4_Witness ==
    /\ UploadedValidText
    /\ event.file = File(NameLabData, BytesErrorRate)
    /\ ShowsText("error", BytesErrorRate)
    /\ ~Has(session_state, "extracted_text")

\* C4's claimed case, where it does happen: report.txt was uploaded and its text
\* is the session's text
C4_WitnessReport ==
    /\ UploadedValidText
    /\ event.file = File(NameReportTxt, BytesReport)
    /\ session_state["extracted_text"] = BytesReport
    /\ ShowsText("text_area", BytesReport)

\* The run was "Get Report Summary" in which the LLM returned a summary and the
\* translation call raised
TranslationFailed ==
    /\ event.type = "summarize"
    /\ event.llm.kind = "content"
    /\ event.tr.kind = "error"

\* C9 as claimed: when a summarize action's LLM call succeeds and the
\* translation call that follows fails, the untranslated summary is stored as
\* the session's summary and is shown.
C9_SummarySurvivesTranslationFailure ==
    TranslationFailed =>
        /\ Has(session_state, "summary")
        /\ session_state["summary"] = event.llm.text
        /\ ShowsText("write", event.llm.text)

\* C9's failing case: the LLM's summary was requested and returned, the
\* translation failed, and the run left no summary in the session and showed
\* only the one error of the except branch
C9_Witness ==
    /\ TranslationFailed
    /\ Sent("llm") /\ Sent("translator")
    /\ ~Has(session_state, "summary")
    /\ ~Shows("write")
    /\ ShowsText("error", <<>>)

\* C10: a summarize action calls the translation service only when the
\* selected language is not English (and then only with the checkbox set and
\* after the LLM has returned); with English selected and the LLM's summary
\* returned, whatever the checkbox, the summary stored in the session and the
\* one shown and offered for download equal the LLM output exactly.
C10_EnglishBypassesTranslation ==
    event.type = "summarize" =>
        /\ Sent("translator") =>
              /\ event.language # English
              /\ event.include_translation
              /\ event.llm.kind = "content"
        /\ (event.language = English /\ event.llm.kind = "content") =>
              /\ ~Sent("translator")
              /\ session_state["summary"] = event.llm.text
              /\ ShowsText("write", event.llm.text)
              /\ ShowsText("download_button", event.llm.text)
              /\ \A i \in 1..Len(display) :
                    display[i].kind = "write" => display[i].text = event.llm.text

\* C10's case: English selected with the auto-translate checkbox set, the LLM
\* returned its summary, no translation was requested
C10_Witness ==
    /\ event.type = "summarize"
    /\ event.language = English
    /\ event.include_translation
    /\ event.llm = Outcome("content", SummaryText)
    /\ ~Sent("translator")
    /\ session_state["summary"] = SummaryText

\* C10's other case: another language with the checkbox set was translated
C10_WitnessTranslated ==
    /\ event.type = "summarize"
    /\ event.language = Hindi
    /\ Sent("translator")
    /\ ShowsText("write", TranslatedText)

(***************************************************************************)
(* Claims about a literature search (SpecSearch)                           *)
(***************************************************************************)
ShowsLabel(kind, label) ==
    \E i \in 1..Len(display) : display[i].kind = kind /\ display[i].label = label
Ran(name) == \E i \in 1..Len(executed) : executed[i] = name

\* The run was "Search Articles" with a topic that is not blank
SearchRan == event.type = "search" /\ StripNonEmpty(event.query)
\* The identifier list the run's lookup returned: the value its key has in the
\* lookup's cache, stored by this run or found there by it
LookupResult == CacheValue(search_cache, SearchKey(event.query, event.choice)).ret

\* C6: when the identifier lookup of a search returns an empty list, the run
\* ends with the "No results found" warning and no article; no record-fetch
\* request is sent and neither fetch_articles_optimized nor
\* parse_articles_optimized runs.
C6_EmptyLookupSkipsFetch ==
    (SearchRan /\ LookupResult = <<>>) =>
        /\ ~Sent("efetch")
        /\ event.http_fetch = NoResponse
        /\ ~Ran("fetch_articles_optimized")
        /\ ~Ran("parse_articles_optimized")
        /\ ShowsLabel("warning", "No results found for the query.")
        /\ ~Shows("expander")
        /\ ~Shows("success")

\* C6's case: the lookup was sent, the service answered with an empty list, and
\* the run showed the warning and sent nothing else
C6_Witness ==
    /\ SearchRan
    /\ event.http_search = HttpJson(<<>>)
    /\ Len(requests) = 1 /\ Sent("esearch")
    /\ display = <<Elem("warning", "No results found for the query.", <<>>)>>

RECURSIVE Count(_, _)
\* How often the character c occurs in s
Count(s, c) ==
    IF s = <<>> THEN 0
    ELSE (IF Head(s) = c THEN 1 ELSE 0) + Count(Tail(s), c)

\* C7: every record-fetch request carries at most 10 identifiers: the first
\* 10 of the looked-up list, in order and comma-joined, when the list is longer
\* than 10, and the whole list otherwise.
C7_FetchRequestCapped ==
    \A i \in 1..Len(requests) :
        requests[i].service = "efetch" =>
            LET sent == requests[i].params.id
            IN  /\ Count(sent, 44) < 10
                /\ Len(LookupResult) > 10
                      => sent = Join(Comma, SubSeq(LookupResult, 1, 10))
                /\ Len(LookupResult) <= 10
                      => sent = Join(Comma, LookupResult)

\* C7's case: the lookup returned 12 identifiers and the request was sent with
\* the first 10
C7_Witness ==
    /\ SearchRan
    /\ LookupResult = IdList(12)
    /\ \E i \in 1..Len(requests) :
          /\ requests[i].service = "efetch"
          /\ requests[i].params.id = Join(Comma, IdList(10))
          /\ Count(requests[i].params.id, 44) = 9

(***************************************************************************)
(* Claims about parse_articles_optimized as a function (SpecParse)         *)
(***************************************************************************)
CalledParse == event.type = "parse_call"
\* The PubmedArticle elements of the payload, in payload order
PayloadArticles ==
    SelectSeq(event.xml_data.children, LAMBDA e : e.tag = "PubmedArticle")

\* C8: parse_articles_optimized never raises and returns one record per
\* PubmedArticle element of the payload, in payload order.  Each record has
\* its own element's title, or "No title" when the element has none; its own
\* element's abstract (cut to 500 characters and "..." when longer), or "No
\* abstract available" when it has none; and, when the element has an
\* identifier, that identifier and the URL https://pubmed.ncbi.nlm.nih.gov/<id>/.
\* Text that is not well-formed XML has no element: no record, an error shown.
C8_OneRecordPerArticle ==
    CalledParse =>
        /\ ~event.raised
        /\ Len(event.articles) = Len(PayloadArticles)
        /\ \A i \in 1..Len(PayloadArticles) :
              LET e == PayloadArticles[i]
                  a == event.articles[i]
              IN  /\ e.title = <<>> => a.title = NoTitle
                  /\ e.title # <<>> => a.title = e.title[1]
                  /\ e.abstract = <<>> => a.abstract = NoAbstract
                  /\ (e.abstract # <<>> /\ Len(e.abstract[1]) <= 500)
                        => a.abstract = e.abstract[1]
                  /\ (e.abstract # <<>> /\ Len(e.abstract[1]) > 500)
                        => a.abstract = SubSeq(e.abstract[1], 1, 500) \o <<46, 46, 46>>
                  /\ (e.pmids # <<>> /\ e.pmids[1] # <<>>)
                        => /\ a.pmid = <<e.pmids[1]>>
                           /\ a.url = PubmedUrlBase \o e.pmids[1] \o <<47>>
        /\ (event.xml_data.empty \/ ~event.xml_data.wellformed)
              => event.articles = <<>> /\ Shows("error")

\* C8's case: a payload of a complete record, one without a title and one
\* without an abstract gave three records, the placeholders in those two
\* fields only
C8_Witness ==
    /\ CalledParse
    /\ event.xml_data = ArticleSet(<<"full", "no_title", "no_abstract">>)
    /\ Len(event.articles) = 3
    /\ event.articles[1].title = TitleOf(1)
    /\ event.articles[2].title = NoTitle
    /\ event.articles[2].abstract = AbstractOf(2)
    /\ event.articles[3].title = TitleOf(3)
    /\ event.articles[3].abstract = NoAbstract
    /\ event.articles[2].url = PubmedUrlBase \o <<52, 48, 48, 50, 47>>

(***************************************************************************)
(* Claims about the caches (SpecCache)                                     *)
(***************************************************************************)
\* The entries of the store c that have not expired at time t
Live(c, t) == {e \in c.entries : t < e.expires}
Holds(c, key, t) == \E e \in Live(c, t) : e.key = key
ValueIn(c, key) == (CHOOSE e \in c.entries : e.key = key).value
\* How often the last run executed the body of `name`
Times(name) == Cardinality({i \in 1..Len(executed) : executed[i] = name})

\* A step that is a script run (the clock stands still)
RunStep == now' = now

\* The step calls a cached function with `key`, its store going from c to d:
\* with an unexpired entry for the key the body does not run and the entry
\* stays as it is; without one the body runs once and its value is stored
\* for `ttl` seconds
CachedCall(c, d, key, fn, ttl) ==
    IF Holds(c, key, now)
    THEN /\ Times(fn)' = 0
         /\ \E e \in Live(c, now) : e.key = key /\ e \in d.entries
    ELSE /\ Times(fn)' = 1
         /\ \E e \in d.entries : e.key = key /\ e.expires = now + ttl

\* What the calls of a run do with the three caches
CachedCalls ==
    /\ uploaded_file' # <<>> =>
          LET f == uploaded_file'[1]
              key == <<f.bytes, f.name>>
          IN  /\ CachedCall(extract_cache, extract_cache', key,
                            "extract_text_optimized", 1800)
              /\ \E i \in 1..Len(display') :
                    /\ display'[i].kind = "text_area"
                    /\ display'[i].text = ValueIn(extract_cache', key)
              /\ Holds(extract_cache, key, now)
                    => ValueIn(extract_cache', key) = ValueIn(extract_cache, key)
    /\ (event'.type = "search" /\ StripNonEmpty(event'.query)) =>
          LET key == <<event'.query, event'.choice>>
              ids == ValueIn(search_cache', key).ret
          IN  /\ CachedCall(search_cache, search_cache', key,
                            "search_pubmed_optimized", 3600)
              /\ Holds(search_cache, key, now)
                    => /\ ~Sent("esearch")'
                       /\ ids = ValueIn(search_cache, key).ret
              /\ ids # <<>> =>
                    /\ CachedCall(fetch_cache, fetch_cache', ids,
                                  "fetch_articles_optimized", 3600)
                    /\ Holds(fetch_cache, ids, now) => ~Sent("efetch")'

\* The step runs the body of a cached function for a key it has already run
\* it for at this clock time
Recomputes ==
    \E c \in computed :
        /\ Times(c.fn)' > 0
        /\ \/ /\ c.fn = "extract_text_optimized"
              /\ uploaded_file' # <<>>
              /\ c.key = <<uploaded_file'[1].bytes, uploaded_file'[1].name>>
           \/ /\ c.fn = "search_pubmed_optimized"
              /\ event'.type = "search"
              /\ c.key = <<event'.query, event'.choice>>
           \/ /\ c.fn = "fetch_articles_optimized"
              /\ event'.type = "search" /\ StripNonEmpty(event'.query)
              /\ c.key = LookupResult'

\* The unexpired entries of c that the step to d removes
Evicted(c, d) == {e \in Live(c, now) : e.key \notin CacheKeys(d)}

\* C1 as claimed: a call of a cached function with a key finds the stored
\* value while it has not expired and runs the body again once it has, and
\* two calls with one key within the TTL (here: at one clock time) run the
\* body once.
C1_OncePerKeyWithinTtl ==
    [][RunStep => (CachedCalls /\ ~Recomputes)]_vars

\* C1 as amended: a call of a cached function with a key for which its store
\* holds an unexpired entry does not run the body and returns the stored
\* value; any other call runs the body once and stores its value for the ttl
\* (1800 s extraction, 3600 s lookup and fetch), an entry counting as expired
\* from exactly ttl seconds on.  The lookup and fetch stores lose no entry
\* before it expires; the extraction store loses one only when it holds 5
\* unexpired entries and a call stores a sixth key, so that a second call with
\* an evicted key runs the body again within the TTL.
C1_OncePerStoredKey ==
    [][/\ RunStep => CachedCalls
       /\ Evicted(search_cache, search_cache') = {}
       /\ Evicted(fetch_cache, fetch_cache') = {}
       /\ Evicted(extract_cache, extract_cache') # {} =>
             /\ Cardinality(Live(extract_cache, now)) = 5
             /\ RunStep
             /\ Times("extract_text_optimized")' = 1]_vars

\* C1's case: at one clock time the body of extract_text_optimized has run for
\* six keys and the store holds five of them: a value was dropped within its
\* TTL, and the file just uploaded was served by running the body
C1_Witness ==
    /\ event.type = "upload"
    /\ Times("extract_text_optimized") = 1
    /\ Cardinality({c \in computed : c.fn = "extract_text_optimized"}) = 6
    /\ Cardinality(Live(extract_cache, now)) = 5
    /\ \E c \in computed : c.key \notin CacheKeys(extract_cache)

\* C1's plain cases: an upload served from the store, a lookup served from the
\* store, and a lookup that ran again after its entry had expired
C1_WitnessHit ==
    /\ event.type = "upload"
    /\ Times("extract_text_optimized") = 0
    /\ ShowsText("text_area", Utf8Decode(BytesCafe).value)
C1_WitnessLookupHit ==
    /\ SearchRan
    /\ Times("search_pubmed_optimized") = 0
    /\ LookupResult = IdList(2)
C1_WitnessExpired ==
    /\ SearchRan
    /\ now = 3600
    /\ Times("search_pubmed_optimized") = 1
    /\ computed = {Computation("search_pubmed_optimized", <<event.query, event.choice>>)}
    /\ Cardinality(search_cache.entries) = 1

\* The key the TTLCache would evict: the first unexpired one of its links
LeastRecentlyUsed(c, t) == Head(SelectSeq(c.links, LAMBDA k : Holds(c, k, t)))

\* Whether a store with the declared max_entries m keeps to it
Bounded(c, m) == m.limited /\ Cardinality(c.entries) <= m.n

\* C2 as claimed: every cache has a max_entries and never holds more entries;
\* an insertion into a full cache leaves max_entries entries and removes the
\* oldest inserted one (with one ttl per store: one that expires first).
C2_EvictsOldestInserted ==
    [][/\ Bounded(extract_cache', Limit(5))
       /\ Bounded(inner_cache', Limit(5))
       /\ Bounded(search_cache', SearchMaxEntries)
       /\ Bounded(fetch_cache', FetchMaxEntries)
       /\ \A e \in Evicted(extract_cache, extract_cache') :
             /\ Cardinality(extract_cache'.entries) = 5
             /\ \A x \in Live(extract_cache, now) : e.expires <= x.expires]_vars

\* C2 as amended: the two extraction caches never hold more than 5 entries.
\* An unexpired entry leaves the extraction cache only when it holds 5
\* unexpired entries and a sixth key is stored; then 5 entries remain and the
\* one removed is the least recently used, stored or read.  The lookup and
\* fetch caches declare no max_entries: no unexpired entry leaves them.
C2_EvictsLeastRecentlyUsed ==
    [][/\ Cardinality(extract_cache'.entries) <= 5
       /\ Cardinality(inner_cache'.entries) <= 5
       /\ \A e \in Evicted(extract_cache, extract_cache') :
             /\ Cardinality(Live(extract_cache, now)) = 5
             /\ Cardinality(extract_cache'.entries) = 5
             /\ e.key = LeastRecentlyUsed(extract_cache, now)
             /\ Cardinality(Evicted(extract_cache, extract_cache')) = 1
       /\ ~SearchMaxEntries.limited /\ ~FetchMaxEntries.limited
       /\ Evicted(search_cache, search_cache') = {}
       /\ Evicted(fetch_cache, fetch_cache') = {}]_vars

\* C2's case: the extraction cache holds 5 unexpired entries, one of them
\* stored at an earlier clock time than a key that has been evicted since
C2_Witness ==
    /\ Cardinality(Live(extract_cache, now)) = 5
    /\ \E e \in extract_cache.entries : e.expires < now + ExtractTtl
    /\ \E c \in computed :
          c.fn = "extract_text_optimized" /\ c.key \notin CacheKeys(extract_cache)

\* C2's other case: the lookup cache holds six entries
C2_WitnessLookups == Cardinality(Live(search_cache, now)) = 6

(***************************************************************************)
(* Claims about the QA history (SpecSession)                               *)
(***************************************************************************)
\* The session's QA history: the list under "qa_history", empty while the
\* session has none
History == QaHistory(session_state)

\* The run was "Generate Answer" with a question typed, the session holding
\* extracted text, and no failure of the LLM: it answered, or the run never
\* came to ask it
AnswerAsked ==
    /\ event.type = "answer"
    /\ event.qa # <<>>
    /\ Has(session_state, "extracted_text")
    /\ event.llm.kind \in {"content", "none"}

\* The history only grows at its end
AppendOnly ==
    /\ Len(History) <= Len(History')
    /\ SubSeq(History', 1, Len(History)) = History

\* C11 as claimed: an answer action with a non-empty question, extracted text
\* in the session and no failure of the LLM appends exactly one record, of that
\* question and the generated answer, at the end of the QA history; over any
\* sequence of actions the history is append-only.
C11_AnswerAppendsRecord ==
    [][/\ AnswerAsked' =>
             History' = Append(History, [question |-> event'.qa,
                                         answer |-> event'.llm.text])
       /\ AppendOnly]_vars

\* C11's failing case: "Generate Answer" with a question, on a session that
\* holds the report's text: generate_answer was called with one argument and
\* raised before get_llm and before any request; the run showed the error of
\* the except branch and the session has no QA history
C11_Witness ==
    /\ event.type = "answer"
    /\ event.qa = QuestionText
    /\ Has(session_state, "extracted_text")
    /\ session_state["extracted_text"] = Utf8Decode(BytesReport).value
    /\ ShowsLabel("error", "Failed to generate answer")
    /\ ~Shows("markdown")
    /\ ~Sent("llm")
    /\ ~Ran("get_llm") /\ ~Ran("generate_answer")
    /\ ~Has(session_state, "qa_history")

\* What does hold of the history: no run ever creates or changes it
C11_HistoryNeverWritten == ~Has(session_state, "qa_history")

(***************************************************************************)
(* Claims about the remote calls of the three buttons (SpecButtons)        *)
(***************************************************************************)
Services == {"llm", "translator", "esearch", "efetch"}
\* How many requests the last run sent to `service`
SentTimes(service) ==
    Cardinality({i \in 1..Len(requests) : requests[i].service = service})
\* The stored summary: <<>> while the session has none
Summary == IF Has(session_state, "summary") THEN <<session_state["summary"]>> ELSE <<>>
\* The run was a summarize or answer action whose LLM call raised
LlmFailed ==
    /\ event.type \in {"summarize", "answer"}
    /\ event.llm.kind = "error"

\* C12: no automatic retry: a run sends at most one request to each remote
\* service.  A summarize or answer action whose LLM call fails shows an error
\* in that run, shows no summary or answer, and leaves the stored summary and
\* the QA history as they were.  An LLM request is sent only by a run that
\* leaves extracted text in the session, and carries that text.
C12_NoRetry ==
    [][/\ \A service \in Services : SentTimes(service)' <= 1
       /\ LlmFailed' =>
             /\ Shows("error")'
             /\ ~Shows("write")' /\ ~Shows("markdown")'
             /\ ~Shows("download_button")'
             /\ Summary' = Summary
             /\ History' = History
       /\ Sent("llm")' =>
             /\ Has(session_state', "extracted_text")
             /\ \A i \in 1..Len(requests') :
                   requests'[i].service = "llm" =>
                       requests'[i].params.report_text
                           = session_state'["extracted_text"]]_vars

\* C12's case: the session holds the summary of an earlier run; "Get Report
\* Summary" sent its one request to the LLM, the call failed, the run showed
\* the error and the stored summary is still the earlier one
C12_Witness ==
    /\ event.type = "summarize"
    /\ event.llm.kind = "error"
    /\ SentTimes("llm") = 1
    /\ ShowsLabel("error", "Summary generation failed")
    /\ Summary = <<SummaryText>>

\* C12's other cases: a search that sent one request to each PubMed service,
\* and a summarize action on a session without text, which sent none
C12_WitnessSearch ==
    /\ event.type = "search"
    /\ SentTimes("esearch") = 1 /\ SentTimes("efetch") = 1
C12_WitnessNoText ==
    /\ event.type = "summarize"
    /\ ~Has(session_state, "extracted_text")
    /\ requests = <<>>
    /\ ShowsLabel("warning", "Please upload and extract a report first.")

(***************************************************************************)
(* Claims about a search repeated after a failed lookup (SpecSearch)       *)
(***************************************************************************)
\* The step is a search that repeats the search of the run before it (same
\* topic, same number of articles), whose lookup request had failed, at the
\* same clock time
RepeatsFailedLookup ==
    /\ SearchRan
    /\ event.http_search = HttpError
    /\ SearchRan'
    /\ event'.query = event.query
    /\ event'.choice = event.choice
    /\ now' = now

\* C13 as claimed: after a lookup request has failed, the next run of the same
\* search within the TTL sends a new lookup request and does not return the
\* stored outcome of the failed attempt.
C13_RetryAfterFailedLookup ==
    [][RepeatsFailedLookup =>
          /\ Sent("esearch")'
          /\ Times("search_pubmed_optimized")' = 1]_vars

\* C13's failing case: the search was repeated and no lookup request went
\* out; the body of search_pubmed_optimized did not run, the lookup's store
\* still holds the empty list of the failed attempt, and the run showed that
\* attempt's error again and "No results found"
C13_Witness ==
    /\ SearchRan
    /\ event.http_search = NoResponse
    /\ requests = <<>>
    /\ Times("search_pubmed_optimized") = 0
    /\ CacheValue(search_cache, SearchKey(event.query, event.choice))
          = Cached(<<>>, <<Elem("error", "Error fetching PubMed IDs", <<>>)>>)
    /\ display = <<Elem("error", "Error fetching PubMed IDs", <<>>),
                   Elem("warning", "No results found for the query.", <<>>)>>

\* What does hold: a lookup whose request failed is stored like any other, and
\* the same search sends no request again while the entry has not expired
C13_FailedLookupIsStored ==
    [][RepeatsFailedLookup =>
          /\ ~Sent("esearch")'
          /\ LookupResult' = <<>>
          /\ ShowsLabel("error", "Error fetching PubMed IDs")']_vars

(***************************************************************************)
(* Claims about what a failed action leaves in the session (SpecSession)   *)
(***************************************************************************)
\* The session's extracted text: <<>> while the session has none
Text ==
    IF Has(session_state, "extracted_text")
    THEN <<session_state["extracted_text"]>> ELSE <<>>

\* What extract_text_optimized returns for the file in the uploader: the value
\* its store holds for that file
UploaderValue ==
    CacheValue(extract_cache,
               ExtractKey(uploaded_file[1].bytes, uploaded_file[1].name))
\* The uploader holds a file whose extraction yields an error value
UploaderFails == uploaded_file # <<>> /\ IsErrorValue(UploaderValue)

\* The run was an upload whose extraction yielded an error value
UploadFailed == event.type = "upload" /\ UploaderFails
\* The run was a summarize action that failed: the chains could not be built,
\* the LLM call raised, or the translation raised
SummarizeFailed ==
    /\ event.type = "summarize"
    /\ \/ event.llm.kind \in {"error", "unavailable"}
       \/ event.tr.kind = "error"
\* The run was an answer action that ended in the error of its except branch
AnswerFailed ==
    /\ event.type = "answer"
    /\ ShowsLabel("error", "Failed to generate answer")

\* C14: a failed action leaves the session's extracted text, summary and QA
\* history as they were.  An upload whose extraction yields an error value
\* keeps the text of the document uploaded before it, and a summarize action
\* that follows sends that text to the LLM; a failed summarize action keeps the
\* stored summary; a failed answer action keeps the QA history.
C14_FailedActionKeepsStore ==
    [][/\ (UploadFailed' \/ SummarizeFailed' \/ AnswerFailed') =>
             /\ Text' = Text
             /\ Summary' = Summary
             /\ History' = History
       /\ (UploaderFails' /\ event'.type = "summarize" /\ Sent("llm")') =>
             /\ Text # <<>>
             /\ \A i \in 1..Len(requests') :
                   requests'[i].service = "llm" =>
                       requests'[i].params.report_text = Text[1]]_vars

\* C14's case: the report had been uploaded and summarised; a file that is
\* not valid UTF-8 was uploaded after it and its error value was shown; the
\* session still holds the report's text and its summary
C14_Witness ==
    /\ event.type = "upload"
    /\ event.file = File(NameScanTXT, BytesBadStart)
    /\ UploaderFails
    /\ ShowsText("error", ErrExtractingPrefix \o MsgDecode)
    /\ Text = <<Utf8Decode(BytesReport).value>>
    /\ Summary = <<SummaryText>>

\* C14's other cases: with the failed file still in the uploader, a summarize
\* action sent the report's text to the LLM; and a summarize action whose LLM
\* call failed kept the summary of an earlier run
C14_WitnessLaterSummary ==
    /\ event.type = "summarize"
    /\ UploaderFails
    /\ \E i \in 1..Len(requests) :
          /\ requests[i].service = "llm"
          /\ requests[i].params.report_text = Utf8Decode(BytesReport).value
C14_WitnessSummaryKept ==
    /\ SummarizeFailed
    /\ event.tr.kind = "error"
    /\ Summary = <<SummaryText>>
====
